---- MODULE Spec2Model ----
(***************************************************************************)
(* State-machine model of the ATtiny85 I2C slave synthesizer               *)
(* (attiny_slaveSynth.ino): the command decoder of loop(), the frequency   *)
(* sweep, the output driver and the TIA polynomial-counter generator.      *)
(***************************************************************************)
EXTENDS Integers, Sequences, FiniteSets, TLC

(***************************************************************************)
(* Bit arithmetic on non-negative integers.                                *)
(***************************************************************************)
Pow2(k) == 2^k

\* bit k of x: !!(x & (1 << k))
Bit(x, k) == (x \div Pow2(k)) % 2

\* a ^ b on single bits
Xor(a, b) == (a + b) % 2

(***************************************************************************)
(* The TIA waveform generator.  sr4 and sr5 are uint8_t; every operator    *)
(* maps the register value(s) before a call to the value(s) after it.      *)
(***************************************************************************)

\* sr4 = ((sr4 << 1) | (!!(sr4 & 0x08) ^ !!(sr4 & 0x04))) & 0x0F
shift4(r4) == (r4 * 2 + Xor(Bit(r4, 3), Bit(r4, 2))) % 16

\* sr5 = ((sr5 << 1) | (!!(sr5 & 0x10) ^ !!(sr5 & 0x04))) & 0x1F
shift5(r5) == (r5 * 2 + Xor(Bit(r5, 4), Bit(r5, 2))) % 32

\* sr4 = ((sr4 << 1) | (!(sr4 & 0x01))) & 0x0F
div4_two(r4) == (r4 * 2 + (1 - Bit(r4, 0))) % 16

\* sr4 = (~sr4 << 1) | (!(!(!(sr4 & 0x04) && ((sr4 & 0x07)))))
\* sr4 is promoted to int, ~sr4 = -sr4 - 1, and the result is stored back
\* into the uint8_t without a mask: the low 8 bits of 2 * (-sr4 - 1), which
\* are those of 2 * (255 - sr4), plus the feedback bit.
div4_six(r4) ==
    LET fb == IF Bit(r4, 2) = 0 /\ r4 % 8 # 0 THEN 1 ELSE 0
    IN  (((255 - r4) * 2) % 256) + fb

\* the register pair as a record
Pair(r4, r5) == [sr4 |-> r4, sr5 |-> r5]

\* TIA waveform 1
wave_poly4(p) == Pair(shift4(p.sr4), p.sr5)

\* the waveform left out of wavefns: sr5 clocks sr4 when its low nibble is 8
wave_div31poly4(p) ==
    LET r5 == shift5(p.sr5)
    IN  Pair(IF r5 % 16 = 8 THEN shift4(p.sr4) ELSE p.sr4, r5)

\* TIA waveform 3: shift5(); if (sr5 & 0x10) shift4();
wave_poly5poly4(p) ==
    LET n5 == shift5(p.sr5)
    IN  Pair(IF Bit(n5, 4) = 1 THEN shift4(p.sr4) ELSE p.sr4, n5)

\* TIA waveforms 4 and 5
wave_div2(p) == Pair(div4_two(p.sr4), p.sr5)

\* TIA waveform 6: shift5(); if ((sr5 & 0x0F) == 0x08) div4_two();
wave_div31div2(p) ==
    LET n5 == shift5(p.sr5)
    IN  Pair(IF n5 % 16 = 8 THEN div4_two(p.sr4) ELSE p.sr4, n5)

\* TIA waveform 7: shift5(); if (sr5 & 0x10) div4_two();
wave_poly5div2(p) ==
    LET n5 == shift5(p.sr5)
    IN  Pair(IF Bit(n5, 4) = 1 THEN div4_two(p.sr4) ELSE p.sr4, n5)

\* TIA waveform 8.  The first assignment stores 8 bits into sr5, the second
\* reads bit 5 of that new value, the third masks sr5 to 5 bits.
wave_poly9(p) ==
    LET t5 == (p.sr5 * 2 + Xor(Bit(p.sr4, 3), Bit(p.sr5, 4))) % 256
    IN  Pair((p.sr4 * 2 + Bit(t5, 5)) % 16, t5 % 32)

\* TIA waveform 9
wave_poly5(p) ==
    LET t5 == (p.sr5 * 2 + Xor(Bit(p.sr5, 4), Bit(p.sr5, 2))) % 256
    IN  Pair((p.sr4 * 2 + Bit(t5, 5)) % 16, t5 % 32)

\* a waveform 7 that would clock sr4 by div4_two
wave_poly5div6_by_two(p) == wave_poly5div2(p)

\* TIA waveform F: shift5(); if (sr5 & 0x10) div4_six();
wave_poly5div6(p) ==
    LET n5 == shift5(p.sr5)
    IN  Pair(IF Bit(n5, 4) = 1 THEN div4_six(p.sr4) ELSE p.sr4, n5)

\* static wavefnptr wavefns[8], indexed 0..7
wavefns(i, p) ==
    CASE i = 0 -> wave_poly4(p)
      [] i = 1 -> wave_poly5poly4(p)
      [] i = 2 -> wave_div2(p)
      [] i = 3 -> wave_div31div2(p)
      [] i = 4 -> wave_poly5div2(p)
      [] i = 5 -> wave_poly9(p)
      [] i = 6 -> wave_poly5(p)
      [] i = 7 -> wave_poly5div6(p)

\* a tia_out that would count waveform numbers from 1
tia_step_from_one(waveformnum, p) == wavefns((waveformnum + 7) % 8, p)

\* tia_out(waveformnum): wavefns[waveformnum & 0x07](); the new register pair
tia_step(waveformnum, p) == wavefns(waveformnum % 8, p)

\* ... and the returned sample, !!(sr4 & 0x08), of the new sr4
tia_sample(p) == Bit(p.sr4, 3)

\* ticks of tia_out followed when its samples are collected
MaxTicks == 64

\* the samples tia_out(waveformnum) returns over n ticks from registers p,
\* those of the ticks that clock sr4 (bit 4 of sr5 set after shift5) only
RECURSIVE ClockedSamples(_, _, _)
ClockedSamples(waveformnum, p, n) ==
    IF n = 0 THEN <<>>
    ELSE LET q == tia_step(waveformnum, p)
         IN  (IF Bit(q.sr5, 4) = 1 THEN <<tia_sample(q)>> ELSE <<>>)
             \o ClockedSamples(waveformnum, q, n - 1)

(***************************************************************************)
(* 32-bit floats.  A float is the record [s, e, m] of its sign, biased     *)
(* exponent and 23-bit fraction; union byteFloat_t overlays it with four   *)
(* bytes, least significant first (AVR is little-endian).                  *)
(***************************************************************************)
Float(sg, ex, fr) == [s |-> sg, e |-> ex, m |-> fr]

\* the float a big-endian machine would read from the same four bytes
FloatOfBytesBigEndian(b) ==
    Float(b[1] \div 128,
          (b[1] % 128) * 2 + b[2] \div 128,
          (b[2] % 128) * 65536 + b[3] * 256 + b[4])

\* convBytesFloat.asFloat, read after asBytes[0..3] were written
\* (b[1] is asBytes[0], ..., b[4] is asBytes[3])
FloatOfBytes(b) ==
    Float(b[4] \div 128,
          (b[4] % 128) * 2 + b[3] \div 128,
          (b[3] % 128) * 65536 + b[2] * 256 + b[1])

\* the 32-bit pattern of a float, as its low and its high 16 bits
PatternLo(f) == f.m % 65536

PatternHi(f) == f.s * 32768 + f.e * 128 + f.m \div 65536

IsNaN(f) == f.e = 255 /\ f.m # 0

IsZero(f) == f.e = 0 /\ f.m = 0

\* magnitude order of two floats that are not NaN: (e, m) lexicographic
MagLT(a, b) == a.e < b.e \/ (a.e = b.e /\ a.m < b.m)

\* a < b on floats: false with a NaN, -0 equals +0
FloatLT(a, b) ==
    /\ ~IsNaN(a) /\ ~IsNaN(b)
    /\ ~(IsZero(a) /\ IsZero(b))
    /\ \/ a.s = 1 /\ b.s = 0
       \/ a.s = 0 /\ b.s = 0 /\ MagLT(a, b)
       \/ a.s = 1 /\ b.s = 1 /\ MagLT(b, a)

\* a == b on floats
FloatEQ(a, b) ==
    /\ ~IsNaN(a) /\ ~IsNaN(b)
    /\ (IsZero(a) /\ IsZero(b)) \/ a = b

\* floor(log2(n)) for n >= 1
RECURSIVE Log2(_)
Log2(n) == IF n < 2 THEN 0 ELSE 1 + Log2(n \div 2)

\* The floats whose value is a whole number of half Hz, of magnitude below
\* 2^29 Hz: the value times two is then an integer, Halves(f).
IsHalves(f) ==
    IF IsZero(f) THEN TRUE
    ELSE IF f.e < 126 \/ f.e > 155 THEN FALSE
    ELSE IF f.e >= 149 THEN TRUE
    ELSE (Pow2(23) + f.m) % Pow2(149 - f.e) = 0

Halves(f) ==
    IF IsZero(f) THEN 0
    ELSE LET mant == Pow2(23) + f.m
             mag  == IF f.e >= 149 THEN mant * Pow2(f.e - 149)
                                   ELSE mant \div Pow2(149 - f.e)
         IN  IF f.s = 1 THEN 0 - mag ELSE mag

\* the float of value h / 2, for h whose magnitude has at most 24
\* significant bits (no rounding)
FloatOfHalves(h) ==
    IF h = 0 THEN Float(0, 0, 0)
    ELSE LET mag == IF h < 0 THEN 0 - h ELSE h
             k   == Log2(mag)
             mant == IF k <= 23 THEN mag * Pow2(23 - k)
                                ELSE mag \div Pow2(k - 23)
         IN  Float(IF h < 0 THEN 1 ELSE 0, 126 + k, mant - Pow2(23))

\* The floats on which f + 1 and f - 1 are computed here: from 2^25 up in
\* magnitude (and inf, NaN) the sum rounds back to f; at most 2^22 in
\* magnitude and a whole number of halves, the sum is exact.
CanStep(f) ==
    IF f.e >= 152 THEN TRUE
    ELSE IF IsHalves(f)
         THEN Halves(f) <= Pow2(23) /\ Halves(f) >= 0 - Pow2(23)
    ELSE FALSE

\* selectedFrequency += sweepDirection, for sweepDirection in {1, -1}
FloatAddInt(f, d) ==
    IF f.e >= 152 THEN f ELSE FloatOfHalves(Halves(f) + 2 * d)

(***************************************************************************)
(* recalcFreq(): delayUs = 500000 / selectedFrequency, a float quotient    *)
(* converted to the 16-bit int delayUs.  Where the truncated quotient does *)
(* not fit an int (or the quotient is inf or NaN) the conversion is        *)
(* undefined: any of the listed results.                                   *)
(***************************************************************************)
Int16Min == 0 - 32768

Int16Max == 32767

\* the low 16 bits of q, as a signed int
Wrap16(q) == ((q + 32768) % 65536) - 32768

\* results of an out-of-range float to int conversion
UndefinedInt(q) == {Wrap16(q), 0, 0 - 1, Int16Min, Int16Max}

\* the quotient truncated toward zero, for a float that is a number of halves
Quotient(f) ==
    LET h == Halves(f)
    IN  IF h > 0 THEN 1000000 \div h ELSE 0 - (1000000 \div (0 - h))

\* a recalcFreq that would keep the delay in one byte
recalcFreqByte(f) ==
    IF IsNaN(f) \/ IsZero(f) \/ ~IsHalves(f) THEN UndefinedInt(0)
    ELSE {Quotient(f) % 256}

\* the set of values recalcFreq() may leave in delayUs
recalcFreq(f) ==
    IF IsNaN(f) \/ IsZero(f) THEN UndefinedInt(0)
    ELSE IF f.e >= 149 THEN {0}
    ELSE IF ~IsHalves(f) THEN UndefinedInt(0)
    ELSE IF Quotient(f) > Int16Max \/ Quotient(f) < Int16Min
         THEN UndefinedInt(Quotient(f))
    ELSE {Quotient(f)}

(***************************************************************************)
(* micros() and nextSweepMicros are 32 bits wide; a value is the pair      *)
(* <<high 16 bits, low 16 bits>>.                                          *)
(***************************************************************************)
Limb == Pow2(16)

\* a + b modulo 2^32
Add32(a, b) ==
    LET lo == a[2] + b[2]
    IN  <<(a[1] + b[1] + lo \div Limb) % Limb, lo % Limb>>

\* a >= b, both as unsigned long: micros() >= nextSweepMicros converts the
\* long nextSweepMicros to unsigned long
GE32(a, b) == a[1] > b[1] \/ (a[1] = b[1] /\ a[2] >= b[2])

\* convBytesLong.asLong after asBytes[0..1] were written: the two high bytes
\* of the static union are never written and stay zero
LongOfBytes(b) == <<0, b[1] + 256 * b[2]>>

(***************************************************************************)
(* The command bytes of the switch in loop().                              *)
(***************************************************************************)
CmdDisable == 48

CmdEnable == 49

CmdLed == 76

CmdNoise == 78

CmdAtari == 65

CmdWaveform == 87

CmdFrequency == 70

CmdSweep == 83

\* the case labels of the switch
Recognized == {CmdDisable, CmdEnable, CmdLed, CmdNoise, CmdAtari,
               CmdWaveform, CmdFrequency, CmdSweep}

\* a decoder that would take a four-byte sweep delay
PayloadLenLongDelay(c) ==
    CASE c \in {CmdLed, CmdNoise, CmdAtari, CmdWaveform} -> 1
      [] c = CmdFrequency -> 4
      [] c = CmdSweep -> 4 + 4 + 4
      [] OTHER -> 0

\* the number of TinyWireS.receive() calls the case of command byte c makes
\* after the command byte itself
PayloadLen(c) ==
    CASE c \in {CmdLed, CmdNoise, CmdAtari, CmdWaveform} -> 1
      [] c = CmdFrequency -> 4
      [] c = CmdSweep -> 4 + 4 + 2
      [] OTHER -> 0

\* a decoder that would acknowledge every byte alike
BlinksForAny(c) == 1

\* numBlinks as the case of command byte c sets it
BlinksFor(c) == IF c \in Recognized THEN 1 ELSE 5

(***************************************************************************)
(* State.                                                                  *)
(***************************************************************************)
VARIABLES
    sr4, sr5,               \* the TIA shift registers
    numBlinks, ledState, ledEnable,
    chipEnable, noiseGenEnable, atariGenEnable, selectedWaveform,
    freqSweepEnable, targetFrequency, sweepDelay, nextSweepMicros,
    sweepDirection,
    selectedFrequency, delayUs,
    convBytesFloat,         \* asBytes[0..3] of the union
    convBytesLong,          \* asBytes[0..1] of the union
    pc,                     \* where loop() stands: "top", "recv" or "out"
    byteCmd,                \* the command byte being served (0: none)
    idx,                    \* payload bytes of byteCmd received so far
    micros,                 \* the clock micros() reads
    rxBuf,                  \* bytes received on I2C, not yet taken
    hostTx,                 \* bytes the bus master has still to send
    sent,                   \* commands the bus master has begun
    spkr,                   \* level of the speaker pin
    path,                   \* what the last output pass did
    writes,                 \* the pin levels the last output pass wrote
    misframed,              \* a byte was taken in the wrong role
    got,                    \* payload bytes of byteCmd, in arrival order
    sinceSweepCmd,          \* microseconds the sweep has been enabled for
    sweepSteps              \* frequency changes by the sweep since the
                            \* last 'S' completed

lfsrVars == <<sr4, sr5>>

ledVars == <<numBlinks, ledState, ledEnable>>

flagVars == <<chipEnable, noiseGenEnable, atariGenEnable, selectedWaveform>>

sweepVars == <<freqSweepEnable, targetFrequency, sweepDelay, nextSweepMicros,
               sweepDirection>>

freqVars == <<selectedFrequency, delayUs>>

convVars == <<convBytesFloat, convBytesLong>>

ctlVars == <<pc, byteCmd, idx, got>>

hostVars == <<rxBuf, hostTx, sent, misframed>>

outVars == <<spkr, path, writes>>

timeVars == <<micros, sinceSweepCmd>>

stepVars == <<sweepSteps>>

vars == <<lfsrVars, ledVars, flagVars, sweepVars, freqVars, convVars,
          ctlVars, hostVars, outVars, timeVars, stepVars>>

(***************************************************************************)
(* Bounds of the model.                                                    *)
(***************************************************************************)
\* commands the bus master sends in one run, per specification
MaxCmdsDecode == 2

MaxCmdsOutput == 3

MaxCmdsSweep == 3

\* capacity of the I2C receive buffer
MaxRx == 2

\* micros() stays within MaxMicros of the 2^32 wrap, on either side
MaxMicros == 3

\* sweep steps that change the frequency, followed after one 'S' command
MaxSweepSteps == 4

\* value of sinceSweepCmd when no sweep is enabled, and where it
\* saturates: above every sweep delay
Long == Pow2(16)

InWindow(t) ==
    \/ t[1] = 0 /\ t[2] <= MaxMicros
    \/ t[1] = Limb - 1 /\ t[2] >= Limb - MaxMicros

Min(a, b) == IF a < b THEN a ELSE b

(***************************************************************************)
(* Power-on: the initializers of the globals, then setup().                *)
(***************************************************************************)
Init ==
    /\ sr4 = 1 /\ sr5 = 1
    /\ numBlinks = 3 /\ ledState = FALSE /\ ledEnable = TRUE
    /\ chipEnable = FALSE /\ noiseGenEnable = FALSE /\ atariGenEnable = FALSE
    /\ selectedWaveform = 1
    /\ freqSweepEnable = FALSE
    /\ targetFrequency = FloatOfHalves(880)
    /\ sweepDelay = <<0, 0>>
    /\ nextSweepMicros = <<0, 0>>
    /\ sweepDirection = 1
    /\ selectedFrequency = FloatOfHalves(880)
    /\ delayUs \in recalcFreq(FloatOfHalves(880))
    /\ convBytesFloat = <<0, 0, 0, 0>>
    /\ convBytesLong = <<0, 0>>
    /\ pc = "top" /\ byteCmd = 0 /\ idx = 0 /\ got = <<>>
    /\ micros = <<0, 0>>
    /\ rxBuf = <<>> /\ hostTx = <<>> /\ sent = 0
    /\ spkr = 0 /\ path = "none" /\ writes = <<>>
    /\ misframed = FALSE
    /\ sinceSweepCmd = Long
    /\ sweepSteps = 0

(***************************************************************************)
(* The bus master.  It sends whole commands, one byte at a time: the       *)
(* command byte, then the payload in the layout the comments of loop()     *)
(* give.  Each byte carries the role the master sent it in.                *)
(***************************************************************************)
\* a float as the master sends it: least significant byte first
BytesOfFloat(f) ==
    << f.m % 256,
       (f.m \div 256) % 256,
       (f.e % 2) * 128 + f.m \div 65536,
       f.s * 128 + f.e \div 2 >>

\* a two-byte unsigned integer, least significant byte first
BytesOfInt(v) == << v % 256, v \div 256 >>

FrequencyCmd(f) == <<CmdFrequency>> \o BytesOfFloat(f)

SweepCmd(from, to, delay) ==
    <<CmdSweep>> \o BytesOfFloat(from) \o BytesOfFloat(to) \o BytesOfInt(delay)

Tagged(c) == [i \in 1..Len(c) |-> [val |-> c[i], op |-> (i = 1)]]

\* the master begins command c, the next of its script: script[k] is the
\* set of commands it may send as its k-th (blocked while one is still
\* being sent)
HostSend(c, script) ==
    /\ sent < Len(script)
    /\ c \in script[sent + 1]
    /\ hostTx = <<>>
    /\ hostTx' = Tagged(c)
    /\ sent' = sent + 1
    /\ UNCHANGED <<lfsrVars, ledVars, flagVars, sweepVars, freqVars, convVars,
                   ctlVars, rxBuf, misframed, outVars, timeVars, stepVars>>

\* one byte crosses the bus into the receive buffer
HostXmit ==
    /\ hostTx # <<>>
    /\ Len(rxBuf) < MaxRx
    /\ rxBuf' = Append(rxBuf, Head(hostTx))
    /\ hostTx' = Tail(hostTx)
    /\ UNCHANGED <<lfsrVars, ledVars, flagVars, sweepVars, freqVars, convVars,
                   ctlVars, sent, misframed, outVars, timeVars, stepVars>>

(***************************************************************************)
(* Time.                                                                   *)
(***************************************************************************)
\* a microsecond passes
Elapse ==
    /\ InWindow(Add32(micros, <<0, 1>>))
    /\ micros' = Add32(micros, <<0, 1>>)
    /\ sinceSweepCmd' = Min(sinceSweepCmd + 1, Long)
    /\ UNCHANGED <<lfsrVars, ledVars, flagVars, sweepVars, freqVars, convVars,
                   ctlVars, hostVars, outVars, stepVars>>

\* a long time passes: micros() comes close to wrapping
LongWait ==
    /\ micros[1] = 0
    /\ micros' = <<Limb - 1, Limb - MaxMicros>>
    /\ sinceSweepCmd' = Long
    /\ UNCHANGED <<lfsrVars, ledVars, flagVars, sweepVars, freqVars, convVars,
                   ctlVars, hostVars, outVars, stepVars>>

\* a loop() that would go on to the output driver without waiting for the
\* payload
AfterCommandNoWait(c) == "out"

\* where loop() stands once the command byte c is read: in the blocking
\* waits of its case when the case reads payload, else past the switch
AfterCommand(c) == IF PayloadLen(c) > 0 THEN "recv" ELSE "out"

(***************************************************************************)
(* loop(), first part: the status LED, then the command byte.              *)
(* blinkDue is millis() >= nextBlinkMillis.                                *)
(***************************************************************************)
LoopTop(blinkDue) ==
    /\ pc = "top"
    /\ LET blink == ledEnable /\ numBlinks > 0 /\ blinkDue
           led1  == IF blink THEN ~ledState ELSE ledState
           num1  == IF blink /\ ledState THEN numBlinks - 1 ELSE numBlinks
       IN  IF rxBuf = <<>>
           THEN /\ ledState' = led1
                /\ numBlinks' = num1
                /\ pc' = "out"
                /\ UNCHANGED <<byteCmd, idx, got, chipEnable, hostVars>>
           ELSE LET c == Head(rxBuf).val
                IN  /\ rxBuf' = Tail(rxBuf)
                    /\ misframed' = (misframed \/ ~Head(rxBuf).op)
                    /\ ledState' = led1
                    /\ numBlinks' = BlinksFor(c)
                    /\ chipEnable' = IF c = CmdDisable THEN FALSE
                                     ELSE IF c = CmdEnable THEN TRUE
                                     ELSE chipEnable
                    /\ pc' = AfterCommand(c)
                    /\ byteCmd' = IF PayloadLen(c) > 0 THEN c ELSE 0
                    /\ idx' = 0
                    /\ got' = <<>>
                    /\ UNCHANGED <<hostTx, sent>>
    /\ UNCHANGED <<lfsrVars, ledEnable, noiseGenEnable, atariGenEnable,
                   selectedWaveform, sweepVars, freqVars, convVars, outVars,
                   timeVars, stepVars>>

\* a decoder that would take every nonzero byte for "on"
IsNonZero(b) == b # 0

\* the test of ledByte, noiseByte and atariByte: byte % 2 == 0 is "off"
IsOdd(b) == b % 2 # 0

(***************************************************************************)
(* loop(), the blocking payload reads: while (!TinyWireS.available()) {}   *)
(* then TinyWireS.receive().  One step takes one payload byte and, with    *)
(* the last byte of the command, runs the rest of the case.                *)
(***************************************************************************)
Receive ==
    /\ pc = "recv"
    /\ rxBuf # <<>>
    /\ LET b     == Head(rxBuf).val
           last  == idx + 1 = PayloadLen(byteCmd)
           isF   == byteCmd = CmdFrequency
           isS   == byteCmd = CmdSweep
           cbf   == IF (isF \/ isS) /\ idx < 8
                    THEN [convBytesFloat EXCEPT ![(idx % 4) + 1] = b]
                    ELSE convBytesFloat
           cbl   == IF isS /\ idx >= 8 /\ idx < 10
                    THEN [convBytesLong EXCEPT ![idx - 7] = b]
                    ELSE convBytesLong
           freq1 == IF (isF \/ isS) /\ idx = 3 THEN FloatOfBytes(cbf)
                    ELSE selectedFrequency
           tgt1  == IF isS /\ idx = 7 THEN FloatOfBytes(cbf)
                    ELSE targetFrequency
           fDone == isF /\ last
           sDone == isS /\ last
           dly1  == IF sDone THEN LongOfBytes(cbl) ELSE sweepDelay
       IN  /\ rxBuf' = Tail(rxBuf)
           /\ misframed' = (misframed \/ Head(rxBuf).op)
           /\ convBytesFloat' = cbf
           /\ convBytesLong' = cbl
           /\ selectedFrequency' = freq1
           /\ targetFrequency' = tgt1
           /\ sweepDelay' = dly1
           /\ nextSweepMicros' = IF sDone THEN Add32(micros, dly1)
                                 ELSE nextSweepMicros
           /\ sweepDirection' =
                  IF sDone
                  THEN (IF FloatLT(freq1, tgt1) THEN 1 ELSE 0 - 1)
                  ELSE sweepDirection
           /\ IF fDone \/ sDone THEN delayUs' \in recalcFreq(freq1)
                                ELSE delayUs' = delayUs
           /\ freqSweepEnable' = IF fDone THEN FALSE
                                 ELSE IF sDone THEN TRUE
                                 ELSE freqSweepEnable
           /\ sinceSweepCmd' = IF sDone THEN 0
                               ELSE IF fDone THEN Long
                               ELSE sinceSweepCmd
           /\ sweepSteps' = IF sDone THEN 0 ELSE sweepSteps
           /\ ledEnable' = IF byteCmd = CmdLed THEN IsOdd(b) ELSE ledEnable
           /\ ledState' = IF byteCmd = CmdLed /\ ~IsOdd(b) THEN FALSE
                          ELSE ledState
           /\ noiseGenEnable' = IF byteCmd = CmdNoise THEN IsOdd(b)
                                ELSE noiseGenEnable
           /\ atariGenEnable' = IF byteCmd = CmdAtari THEN IsOdd(b)
                                ELSE atariGenEnable
           /\ selectedWaveform' = IF byteCmd = CmdWaveform THEN b
                                  ELSE selectedWaveform
           /\ pc' = IF last THEN "out" ELSE "recv"
           /\ byteCmd' = IF last THEN 0 ELSE byteCmd
           /\ idx' = IF last THEN 0 ELSE idx + 1
           /\ got' = IF last THEN <<>> ELSE Append(got, b)
    /\ UNCHANGED <<lfsrVars, numBlinks, chipEnable, hostTx, sent, outVars,
                   micros>>

(***************************************************************************)
(* loop(), last part: the sweep step and the output driver.                *)
(***************************************************************************)
\* a driver that would test atariGenEnable before noiseGenEnable
OutputPathAtariFirst(chip, noise, atari) ==
    IF ~chip THEN "none"
    ELSE IF atari THEN "tia"
    ELSE IF noise THEN "noise"
    ELSE "square"

\* which branch of the output driver runs, from the three flags
OutputPath(chip, noise, atari) ==
    IF ~chip THEN "none"
    ELSE IF noise THEN "noise"
    ELSE IF atari THEN "tia"
    ELSE "square"

\* a sweep that would run with the chip disabled
SweepDueAnyway == freqSweepEnable /\ GE32(micros, nextSweepMicros)

\* chipEnable, freqSweepEnable and micros() >= nextSweepMicros
SweepDue ==
    chipEnable /\ freqSweepEnable /\ GE32(micros, nextSweepMicros)

\* a sweep that would move by sweepDelay Hz per step
SweepStepByDelay(f, dir) == FloatAddInt(f, dir * sweepDelay[2])

\* selectedFrequency after the sweep step of this pass
SweepStep(f, dir) == FloatAddInt(f, dir)

\* selectedFrequency == targetFrequency, which ends the sweep
SweepDone(f, target) == FloatEQ(f, target)

\* rnd is random(2); later is the time that passes between the two
\* micros() calls of the sweep step
Output(rnd, later) ==
    /\ pc = "out"
    /\ LET stepped == IF SweepDue
                      THEN SweepStep(selectedFrequency, sweepDirection)
                      ELSE selectedFrequency
           again   == SweepDue /\ ~SweepDone(stepped, targetFrequency)
           now2    == IF again THEN Add32(micros, <<0, later>>) ELSE micros
           way     == OutputPath(chipEnable, noiseGenEnable, atariGenEnable)
           regs    == IF way = "tia"
                      THEN tia_step(selectedWaveform, Pair(sr4, sr5))
                      ELSE Pair(sr4, sr5)
           moved   == SweepDue /\ stepped # selectedFrequency
       IN  /\ SweepDue => CanStep(selectedFrequency)
           /\ moved => sweepSteps < MaxSweepSteps
           /\ sweepSteps' = IF moved THEN sweepSteps + 1 ELSE sweepSteps
           /\ InWindow(now2)
           /\ selectedFrequency' = stepped
           /\ IF SweepDue THEN delayUs' \in recalcFreq(stepped)
                          ELSE delayUs' = delayUs
           /\ freqSweepEnable' = (freqSweepEnable /\ (SweepDue => again))
           /\ nextSweepMicros' = IF again THEN Add32(now2, sweepDelay)
                                 ELSE nextSweepMicros
           /\ micros' = now2
           /\ sinceSweepCmd' = IF again THEN Min(sinceSweepCmd + later, Long)
                               ELSE IF SweepDue THEN Long
                               ELSE sinceSweepCmd
           /\ sr4' = regs.sr4
           /\ sr5' = regs.sr5
           /\ path' = way
           /\ writes' = CASE way = "none"   -> <<>>
                          [] way = "noise"  -> <<rnd>>
                          [] way = "tia"    -> <<tia_sample(regs)>>
                          [] way = "square" -> <<1, 0>>
           /\ spkr' = CASE way = "none"   -> spkr
                        [] way = "noise"  -> rnd
                        [] way = "tia"    -> tia_sample(regs)
                        [] way = "square" -> 0
    /\ pc' = "top"
    /\ UNCHANGED <<ledVars, flagVars, targetFrequency, sweepDelay,
                   sweepDirection, convVars, byteCmd, idx, got, hostVars>>

(***************************************************************************)
(* The tone branch alone, with any waveform number: selectedWaveform is    *)
(* set and tia_out(selectedWaveform) is written to the pin.                *)
(***************************************************************************)
\* the waveform numbers tried: 0..MaxWaveform
MaxWaveform == 8

TiaTick(w) ==
    LET regs == tia_step(w, Pair(sr4, sr5))
    IN  /\ selectedWaveform' = w
        /\ sr4' = regs.sr4
        /\ sr5' = regs.sr5
        /\ path' = "tia"
        /\ writes' = <<tia_sample(regs)>>
        /\ spkr' = tia_sample(regs)
        /\ UNCHANGED <<ledVars, chipEnable, noiseGenEnable, atariGenEnable,
                       sweepVars, freqVars, convVars, ctlVars, hostVars,
                       timeVars, stepVars>>

TiaNext == \E w \in 0..MaxWaveform : TiaTick(w)

SpecTia == Init /\ [][TiaNext]_vars

(***************************************************************************)
(* Specifications: the device from power-on with a bus master that sends   *)
(* commands of a given repertoire.                                         *)
(***************************************************************************)
\* loop(), with the LED timer expired or not as dueSet allows
Loop(dueSet) ==
    \/ \E blinkDue \in dueSet : LoopTop(blinkDue)
    \/ Receive
    \/ \E rnd \in 0..1, later \in 0..1 : Output(rnd, later)

\* Decoding: every command byte, an unknown one, payload bytes that are
\* themselves command bytes.  The clock stands still.
DecodeFreq == FloatOfHalves(883)

DecodeCmds ==
    {<<c>> : c \in {CmdDisable, CmdEnable, 88}}
    \cup {<<c, CmdSweep>> : c \in {CmdLed, CmdNoise, CmdAtari, CmdWaveform}}
    \cup {FrequencyCmd(DecodeFreq),
          SweepCmd(DecodeFreq, FloatOfHalves(884), 0)}

DecodeScript == [k \in 1..MaxCmdsDecode |-> DecodeCmds]

DecodeNext ==
    \/ Loop(BOOLEAN)
    \/ \E c \in DecodeCmds : HostSend(c, DecodeScript)
    \/ HostXmit

Spec == Init /\ [][DecodeNext]_vars

\* The output driver: the enable flags in every combination.
OutputCmds ==
    {<<CmdEnable>>, <<CmdDisable>>}
    \cup {<<c, v>> : c \in {CmdNoise, CmdAtari}, v \in {3, CmdDisable}}

OutputScript == [k \in 1..MaxCmdsOutput |-> OutputCmds]

OutputNext ==
    \/ Loop({TRUE})
    \/ \E c \in OutputCmds : HostSend(c, OutputScript)
    \/ HostXmit

SpecOutput == Init /\ [][OutputNext]_vars

\* Sweeps, with the clock running: the master enables the chip, sends a
\* sweep or a frequency command, then frequency commands.
SweepUp == <<FloatOfHalves(880), FloatOfHalves(884)>>

SweepUpPast == <<FloatOfHalves(880), FloatOfHalves(883)>>

SweepDown == <<FloatOfHalves(884), FloatOfHalves(880)>>

SweepDownPast == <<FloatOfHalves(883), FloatOfHalves(880)>>

SweepNowhere == <<FloatOfHalves(880), FloatOfHalves(880)>>

SweepPairs == {SweepUp, SweepUpPast, SweepDown, SweepDownPast, SweepNowhere}

SweepDelays == {0, 2}

FreqCmds == {FrequencyCmd(FloatOfHalves(883))}

SweepCmds ==
    FreqCmds
    \cup {SweepCmd(p[1], p[2], d) : p \in SweepPairs, d \in SweepDelays}

SweepScript ==
    [k \in 1..MaxCmdsSweep |-> CASE k = 1 -> {<<CmdEnable>>}
                                 [] k = 2 -> SweepCmds
                                 [] OTHER -> FreqCmds]

SweepNext ==
    \/ Loop({TRUE})
    \/ \E c \in SweepCmds \cup {<<CmdEnable>>} : HostSend(c, SweepScript)
    \/ HostXmit
    \/ Elapse
    \/ LongWait

SpecSweep == Init /\ [][SweepNext]_vars

\* Convergence of sweeps: the master enables the chip and starts one sweep
\* that is due on every pass (sweepDelay 0); the loop keeps running, bytes
\* on the bus arrive, time passes without reaching the wrap of micros().
MaxCmdsFair == 2

\* 2^25 Hz to 2^25 + 4 Hz: the next float above the start is the target
SweepStuck == <<FloatOfHalves(Pow2(26)), FloatOfHalves(Pow2(26) + 8)>>

FairCmds == {SweepCmd(p[1], p[2], 0) : p \in {SweepUp, SweepDown, SweepStuck}}

FairScript ==
    [k \in 1..MaxCmdsFair |-> IF k = 1 THEN {<<CmdEnable>>} ELSE FairCmds]

FairNext ==
    \/ Loop({TRUE})
    \/ \E c \in FairCmds \cup {<<CmdEnable>>} : HostSend(c, FairScript)
    \/ HostXmit
    \/ Elapse

FairSweep ==
    /\ Init /\ [][FairNext]_vars
    /\ WF_vars(Loop({TRUE}))
    /\ WF_vars(HostXmit)
    /\ WF_vars(Elapse)

\* The tone scenario: the master enables the chip, selects waveform 3 and
\* enables the Atari generator, then stays silent.
ToneScript ==
    << {<<CmdEnable>>}, {<<CmdWaveform, 3>>}, {<<CmdAtari, 1>>} >>

ToneNext ==
    \/ Loop({TRUE})
    \/ \E c \in UNION {ToneScript[k] : k \in 1..Len(ToneScript)} :
           HostSend(c, ToneScript)
    \/ HostXmit

SpecTone == Init /\ [][ToneNext]_vars

\* Frequencies over the range: the master enables the chip, then sends
\* frequency and sweep commands with low and high frequencies (10 Hz,
\* 2000.5 Hz, 2001 Hz; sweeps 440 -> 442 Hz and 1.5 -> 1 Hz, always due).
MaxCmdsRange == 3

RangeCmds ==
    {FrequencyCmd(FloatOfHalves(h)) : h \in {20, 4001, 4002}}
    \cup {SweepCmd(SweepUp[1], SweepUp[2], 0),
          SweepCmd(FloatOfHalves(3), FloatOfHalves(2), 0)}

RangeScript ==
    [k \in 1..MaxCmdsRange |-> IF k = 1 THEN {<<CmdEnable>>} ELSE RangeCmds]

RangeNext ==
    \/ Loop({TRUE})
    \/ \E c \in RangeCmds \cup {<<CmdEnable>>} : HostSend(c, RangeScript)
    \/ HostXmit

SpecRange == Init /\ [][RangeNext]_vars

\* The parameter commands: '0', '1' and 'N', 'A', 'W' with payload bytes
\* from both ends of 0..255, odd and even, below and above 7.
MaxCmdsParams == 3

PayloadValues == {0, 1, 2, 9, 255}

ParamCmds ==
    {<<CmdDisable>>, <<CmdEnable>>}
    \cup {<<c, v>> : c \in {CmdNoise, CmdAtari, CmdWaveform},
                     v \in PayloadValues}

ParamScript == [k \in 1..MaxCmdsParams |-> ParamCmds]

ParamNext ==
    \/ Loop({TRUE})
    \/ \E c \in ParamCmds : HostSend(c, ParamScript)
    \/ HostXmit

SpecParams == Init /\ [][ParamNext]_vars

\* Sweeps with the chip switched on and off: the master enables or disables
\* the chip, starts a sweep, then disables or enables the chip; the clock
\* runs.
MaxCmdsGate == 3

GateSweeps ==
    {SweepCmd(p[1], p[2], d) : p \in {SweepUp, SweepDown}, d \in SweepDelays}

GateSwitches == {<<CmdDisable>>, <<CmdEnable>>}

GateScript ==
    [k \in 1..MaxCmdsGate |-> IF k = 2 THEN GateSweeps ELSE GateSwitches]

GateNext ==
    \/ Loop({TRUE})
    \/ \E c \in GateSweeps \cup GateSwitches : HostSend(c, GateScript)
    \/ HostXmit
    \/ Elapse
    \/ LongWait

SpecGate == Init /\ [][GateNext]_vars

(***************************************************************************)
(* Properties of the shift registers, under SpecTia.                       *)
(***************************************************************************)
\* C1: from power-on (sr4 = 1, sr5 = 1), after any number of tia_out calls
\* with any sequence of waveform numbers, neither register is 0.
LfsrNeverZero == sr4 >= 1 /\ sr5 >= 1

\* C2: after every tia_out call, sr4 fits in 4 bits and sr5 fits in 5 bits.
LfsrFits == sr4 <= 15 /\ sr5 <= 31

\* C17 as the specification words it: a tick of waveform 1 clocks sr5
\* (feedback bit 4 xor bit 2) and clocks sr4 (feedback bit 3 xor bit 2)
\* exactly when the low nibble of sr5 is 8, else leaves sr4 as it is.
PolyFourOnLowNibble ==
    [][selectedWaveform' % 8 = 1 =>
          /\ sr5' = (sr5 * 2 + Xor(Bit(sr5, 4), Bit(sr5, 2))) % 32
          /\ sr4' = IF sr5' % 16 = 8
                    THEN (sr4 * 2 + Xor(Bit(sr4, 3), Bit(sr4, 2))) % 16
                    ELSE sr4]_vars

\* C17: a tick of waveform 1 clocks sr5 (feedback bit 4 xor bit 2) and
\* clocks sr4 (feedback bit 3 xor bit 2) exactly when bit 4 of sr5 is set
\* after that, else leaves sr4 as it is.
PolyFourOnBitFour ==
    [][selectedWaveform' % 8 = 1 =>
          /\ sr5' = (sr5 * 2 + Xor(Bit(sr5, 4), Bit(sr5, 2))) % 32
          /\ sr4' = IF sr5' >= 16
                    THEN (sr4 * 2 + Xor(Bit(sr4, 3), Bit(sr4, 2))) % 16
                    ELSE sr4]_vars

\* a tick of waveform 1 has clocked sr4, with the low nibble of sr5 not 8
ClockedByBitFour ==
    /\ selectedWaveform % 8 = 1 /\ path = "tia"
    /\ sr5 >= 16 /\ sr5 % 16 # 8 /\ sr4 > 1 /\ sr4 <= 15

\* C18: from every register state reachable from power-on, the samples of
\* waveform 7 on the ticks that clock sr4 are, after at most two of them,
\* periodic with period 6, every six in a row being three 0s and three 1s
\* in a row (000111 or a rotation of it).
DivSixPattern ==
    LET smp == ClockedSamples(7, Pair(sr4, sr5), MaxTicks)
    IN  \A i \in 3..Len(smp) :
           /\ i + 6 <= Len(smp) => smp[i] = smp[i + 6]
           /\ i + 5 <= Len(smp) =>
                  SubSeq(smp, i, i + 5) \in
                      { <<0, 0, 0, 1, 1, 1>>, <<0, 0, 1, 1, 1, 0>>,
                        <<0, 1, 1, 1, 0, 0>>, <<1, 1, 1, 0, 0, 0>>,
                        <<1, 1, 0, 0, 0, 1>>, <<1, 0, 0, 0, 1, 1>> }

\* waveform 7 has left more than four bits in sr4, the low three of them
\* outside the cycle of div4_six, with sr5 running
DivSixOffCycle ==
    selectedWaveform = 7 /\ sr4 > 15 /\ sr4 % 8 \in {0, 7} /\ sr5 >= 16

\* C19: with any waveform 0..7, from every register state reachable from
\* power-on, further ticks eventually give a sample other than the present
\* one; so no tick of any waveform leaves a reachable register state as it
\* is (from such a state every later sample would be the same).
ToneNeverStuck ==
    \A w \in 0..7 : tia_step(w, Pair(sr4, sr5)) # Pair(sr4, sr5)

(***************************************************************************)
(* Properties of the sweep, under SpecSweep and FairSweep.                 *)
(***************************************************************************)
\* C3: while a sweep started by 'S' is enabled, selectedFrequency never
\* lies past targetFrequency in the direction of the sweep: not above it
\* when sweeping up, not below it when sweeping down.
SweepNeverPasses ==
    (freqSweepEnable /\ pc # "recv") =>
        /\ sweepDirection = 1 => ~FloatLT(targetFrequency, selectedFrequency)
        /\ sweepDirection = 0 - 1 =>
               ~FloatLT(selectedFrequency, targetFrequency)

\* C4: once an 'S' command is in effect with the chip enabled and nothing
\* more arrives, the sweep eventually ends with selectedFrequency equal to
\* targetFrequency, and until then the frequency only moves toward the
\* target side (never down in an upward sweep, never up in a downward one).
SweepConverges ==
    /\ (/\ sent = MaxCmdsFair /\ hostTx = <<>> /\ rxBuf = <<>> /\ pc # "recv"
        /\ chipEnable /\ freqSweepEnable)
          ~> (~freqSweepEnable /\ FloatEQ(selectedFrequency, targetFrequency))
    /\ [][(freqSweepEnable /\ pc # "recv") =>
              /\ sweepDirection = 1 =>
                     ~FloatLT(selectedFrequency', selectedFrequency)
              /\ sweepDirection = 0 - 1 =>
                     ~FloatLT(selectedFrequency, selectedFrequency')]_vars

\* C6: an 'F' command with payload b0, b1, b2, b3 in arrival order sets
\* selectedFrequency to the float whose 32-bit pattern is
\* b0 + 2^8 b1 + 2^16 b2 + 2^24 b3 and disables the sweep; no step of the
\* command changes the enable flags, the waveform number or the shift
\* registers; with the sweep disabled the frequency changes only inside an
\* 'F' or 'S' command.
FrequencyCommand ==
    [][/\ (byteCmd = CmdFrequency /\ byteCmd' = 0) =>
             /\ PatternLo(selectedFrequency')
                    = Append(got, Head(rxBuf).val)[1]
                      + 256 * Append(got, Head(rxBuf).val)[2]
             /\ PatternHi(selectedFrequency')
                    = Append(got, Head(rxBuf).val)[3]
                      + 256 * Append(got, Head(rxBuf).val)[4]
             /\ ~freqSweepEnable'
       /\ (byteCmd = CmdFrequency \/ byteCmd' = CmdFrequency) =>
             UNCHANGED <<flagVars, lfsrVars>>
       /\ (~freqSweepEnable /\ byteCmd \notin {CmdFrequency, CmdSweep}) =>
             selectedFrequency' = selectedFrequency]_vars

\* an 'F' command ended a sweep that had made one of its two steps
SweepCancelled ==
    /\ ~freqSweepEnable /\ sweepSteps = 1 /\ pc = "out"
    /\ targetFrequency = FloatOfHalves(884)
    /\ selectedFrequency = FloatOfHalves(883)

\* C7: an 'S' command sets selectedFrequency from its first four payload
\* bytes, targetFrequency from the next four, sweepDelay from the two after
\* them (least significant first, unsigned), sweepDirection to 1 when start
\* < target and to -1 when start > target, nextSweepMicros to micros() at
\* the end of the command plus sweepDelay, and enables the sweep; so the
\* first step of the sweep comes no sooner than sweepDelay microseconds
\* after the command.
SweepCommand ==
    [][/\ (byteCmd = CmdSweep /\ byteCmd' = 0) =>
             /\ PatternLo(selectedFrequency') = got[1] + 256 * got[2]
             /\ PatternHi(selectedFrequency') = got[3] + 256 * got[4]
             /\ PatternLo(targetFrequency') = got[5] + 256 * got[6]
             /\ PatternHi(targetFrequency') = got[7] + 256 * got[8]
             /\ sweepDelay' = <<0, got[9] + 256 * Head(rxBuf).val>>
             /\ FloatLT(selectedFrequency', targetFrequency') =>
                    sweepDirection' = 1
             /\ FloatLT(targetFrequency', selectedFrequency') =>
                    sweepDirection' = 0 - 1
             /\ nextSweepMicros' = Add32(micros, sweepDelay')
             /\ freqSweepEnable'
       /\ (sweepSteps = 0 /\ sweepSteps' = 1) =>
             sinceSweepCmd >= sweepDelay[2]]_vars

PayloadWaitBlocks ==
    [][byteCmd # 0 =>
          /\ pc = "recv"
          /\ UNCHANGED <<outVars, lfsrVars>>
          /\ sweepSteps' <= sweepSteps
          /\ Len(rxBuf') >= Len(rxBuf) =>
                 /\ UNCHANGED <<selectedFrequency, delayUs, sweepVars>>
                 /\ byteCmd' = byteCmd /\ pc' = "recv"]_vars

\* a sweep step is due while loop() waits for the payload of an 'F'
\* command, of which no byte has arrived, past the wrap of micros()
DueWhileWaiting ==
    /\ byteCmd = CmdFrequency /\ pc = "recv" /\ rxBuf = <<>> /\ idx = 0
    /\ chipEnable /\ freqSweepEnable /\ GE32(micros, nextSweepMicros)
    /\ sweepSteps >= 1 /\ sinceSweepCmd = Long

(***************************************************************************)
(* Properties of the command decoder, under Spec.                          *)
(***************************************************************************)
\* C5: the decoder takes one command byte and then exactly the payload of
\* that command - 1 byte for 'L', 'N', 'A', 'W', 4 for 'F', 10 for 'S', none
\* for '0', '1' and every other byte - so no byte the master sent as a
\* command byte is taken as payload and no payload byte as a command byte.
DecoderFraming ==
    /\ ~misframed
    /\ pc = "recv" =>
           /\ Len(got) = idx
           /\ idx < (CASE byteCmd \in {CmdLed, CmdNoise, CmdAtari, CmdWaveform}
                             -> 1
                        [] byteCmd = CmdFrequency -> 4
                        [] byteCmd = CmdSweep -> 10
                        [] OTHER -> 0)
    /\ pc # "recv" => byteCmd = 0

\* an 'S' command was taken whole and the byte after it, not a command the
\* switch knows, was taken as a command byte
FramedAfterSweep ==
    freqSweepEnable /\ numBlinks = 5 /\ sent = 2 /\ hostTx = <<>>
    /\ rxBuf = <<>> /\ pc = "out"

\* C9: a byte in command position that is none of '0', '1', 'L', 'N', 'A',
\* 'W', 'F', 'S' changes no flag, no sweep variable, neither the frequency,
\* delayUs nor the shift registers, takes no payload byte, sets numBlinks to
\* 5 and leaves the next byte to be read as a command byte; each of the
\* eight known command bytes sets numBlinks to 1.
UnknownCommand ==
    [][(pc = "top" /\ rxBuf # <<>> /\ pc' # "top") =>
          IF Head(rxBuf).val \in {CmdDisable, CmdEnable, CmdLed, CmdNoise,
                                  CmdAtari, CmdWaveform, CmdFrequency,
                                  CmdSweep}
          THEN numBlinks' = 1
          ELSE /\ numBlinks' = 5
               /\ UNCHANGED <<flagVars, sweepVars, freqVars, lfsrVars>>
               /\ rxBuf' = Tail(rxBuf)
               /\ pc' = "out" /\ byteCmd' = 0
               /\ misframed' = misframed]_vars

\* an unknown command byte was taken while the next byte was waiting
UnknownTaken ==
    numBlinks = 5 /\ pc = "out" /\ rxBuf # <<>> /\ Head(rxBuf).op

(***************************************************************************)
(* Properties of the output driver, under SpecOutput.                      *)
(***************************************************************************)
\* C10: every pass of the output driver does exactly one thing, fixed by
\* the flags: nothing when chipEnable is false; else the noise write when
\* noiseGenEnable is true, whatever atariGenEnable is; else the tia_out
\* write when atariGenEnable is true; else the square pulse, high then low.
\* The shift registers advance by one tia_out call on the tia_out path and
\* do not change on any other.
OneOutputPath ==
    [][(pc = "out" /\ pc' = "top") =>
          /\ path' = IF ~chipEnable THEN "none"
                     ELSE IF noiseGenEnable THEN "noise"
                     ELSE IF atariGenEnable THEN "tia"
                     ELSE "square"
          /\ path' = "none" => writes' = <<>> /\ spkr' = spkr
          /\ path' = "noise" => Len(writes') = 1
          /\ path' = "square" => writes' = <<1, 0>> /\ spkr' = 0
          /\ path' = "tia" =>
                 /\ Pair(sr4', sr5') = tia_step(selectedWaveform,
                                                Pair(sr4, sr5))
                 /\ writes' = <<Bit(sr4', 3)>>
          /\ path' # "tia" => UNCHANGED lfsrVars]_vars

\* the noise write ran with both generators enabled
NoiseOverAtari ==
    path = "noise" /\ atariGenEnable /\ noiseGenEnable /\ chipEnable
    /\ pc = "top"

(***************************************************************************)
(* Properties of the tone scenario, under SpecTone.                        *)
(***************************************************************************)
\* C11 as the specification words it: after '1', 'W' 3, 'A' 1 every output
\* pass writes one tia_out sample made by waveform rule 2 (sr4 clocked alone
\* by div4_two, sr5 untouched), held for the delay of 440 Hz, and never
\* takes the noise or the square path.
ToneByRuleTwo ==
    [][(sent = Len(ToneScript) /\ hostTx = <<>> /\ rxBuf = <<>>
        /\ pc = "out" /\ pc' = "top") =>
          /\ path' = "tia"
          /\ sr5' = sr5
          /\ sr4' = (sr4 * 2 + (1 - (sr4 % 2))) % 16
          /\ writes' = <<Bit(sr4', 3)>>
          /\ delayUs = 1136]_vars

\* C11: after '1', 'W' 3, 'A' 1 every output pass writes one tia_out sample
\* made by wavefns[3] (sr5 clocked by shift5, then sr4 clocked by div4_two
\* only when the low nibble of sr5 is 8), held for the delay of 440 Hz
\* (1136 us), and never takes the noise or the square path.
ToneByRuleThree ==
    [][(sent = Len(ToneScript) /\ hostTx = <<>> /\ rxBuf = <<>>
        /\ pc = "out" /\ pc' = "top") =>
          /\ path' = "tia"
          /\ sr5' = (sr5 * 2 + Xor(Bit(sr5, 4), Bit(sr5, 2))) % 32
          /\ sr4' = IF sr5' % 16 = 8 THEN (sr4 * 2 + (1 - (sr4 % 2))) % 16
                    ELSE sr4
          /\ writes' = <<Bit(sr4', 3)>>
          /\ delayUs = 1136]_vars

\* the scenario is complete and a tone pass has clocked sr4
ToneClocked ==
    /\ sent = Len(ToneScript) /\ hostTx = <<>> /\ rxBuf = <<>> /\ pc = "top"
    /\ path = "tia" /\ sr5 % 16 = 8 /\ selectedWaveform = 3

(***************************************************************************)
(* Properties of delayUs and of the range of selectedFrequency, under      *)
(* SpecRange.                                                              *)
(***************************************************************************)
\* C12: on every output pass that holds the pin for delayUs (the tia_out
\* and the square path), delayUs is 500000 / selectedFrequency truncated to
\* an integer, for the selectedFrequency of that pass.
DelayMatchesFrequency ==
    [][(pc = "out" /\ pc' = "top" /\ path' \in {"tia", "square"}
        /\ FloatLT(Float(0, 0, 0), selectedFrequency')) =>
          delayUs' = 1000000 \div Halves(selectedFrequency')]_vars

\* C13: with every frequency of every 'F' and 'S' payload above 0,
\* selectedFrequency is above 0 in every reachable state.
FrequencyPositive == FloatLT(Float(0, 0, 0), selectedFrequency)

ParameterCommands ==
    [][/\ (pc = "top" /\ rxBuf # <<>> /\ pc' # "top") =>
             /\ Head(rxBuf).val = CmdDisable =>
                    ~chipEnable' /\ UNCHANGED <<noiseGenEnable,
                        atariGenEnable, selectedWaveform, sweepVars,
                        freqVars, lfsrVars>>
             /\ Head(rxBuf).val = CmdEnable =>
                    chipEnable' /\ UNCHANGED <<noiseGenEnable,
                        atariGenEnable, selectedWaveform, sweepVars,
                        freqVars, lfsrVars>>
             /\ Head(rxBuf).val \in {CmdNoise, CmdAtari, CmdWaveform} =>
                    UNCHANGED <<flagVars, sweepVars, freqVars, lfsrVars>>
       /\ (byteCmd = CmdNoise /\ byteCmd' = 0) =>
             /\ noiseGenEnable' = (Head(rxBuf).val % 2 = 1)
             /\ UNCHANGED <<chipEnable, atariGenEnable, selectedWaveform,
                            sweepVars, freqVars, lfsrVars>>
       /\ (byteCmd = CmdAtari /\ byteCmd' = 0) =>
             /\ atariGenEnable' = (Head(rxBuf).val % 2 = 1)
             /\ UNCHANGED <<chipEnable, noiseGenEnable, selectedWaveform,
                            sweepVars, freqVars, lfsrVars>>
       /\ (byteCmd = CmdWaveform /\ byteCmd' = 0) =>
             /\ selectedWaveform' % 8 = Head(rxBuf).val % 8
             /\ UNCHANGED <<chipEnable, noiseGenEnable, atariGenEnable,
                            sweepVars, freqVars, lfsrVars>>
       /\ (pc = "out" /\ pc' = "top" /\ path' = "tia") =>
             Pair(sr4', sr5') = wavefns(selectedWaveform % 8,
                                        Pair(sr4, sr5))]_vars

\* a tone pass has run with a waveform number above 7 selected
ToneAboveSeven ==
    /\ atariGenEnable /\ ~noiseGenEnable /\ chipEnable /\ path = "tia"
    /\ pc = "top" /\ selectedWaveform = 9

(***************************************************************************)
(* Properties of the chipEnable gate, under SpecGate.                      *)
(***************************************************************************)
\* C20: while chipEnable is false, no step that takes no byte from the bus -
\* a pass of loop(), time passing - changes selectedFrequency,
\* freqSweepEnable, nextSweepMicros or delayUs; a sweep step is made only
\* by a pass that finds chipEnable true.
NoSweepWhileDisabled ==
    [][/\ (~chipEnable /\ Len(rxBuf') >= Len(rxBuf)) =>
             UNCHANGED <<selectedFrequency, freqSweepEnable,
                         nextSweepMicros, delayUs>>
       /\ sweepSteps' > sweepSteps => chipEnable]_vars

\* a sweep that made a step was stopped by '0' and then, long overdue, was
\* passed over by the loop
OverdueWhileDisabled ==
    /\ ~chipEnable /\ freqSweepEnable /\ GE32(micros, nextSweepMicros)
    /\ sinceSweepCmd = Long /\ sweepSteps >= 1
    /\ pc = "top" /\ path = "none" /\ rxBuf = <<>> /\ sent = 3

====
